---- MODULE Spec2Model ----
(***************************************************************************)
(* Model of the Socket.IO signaling server of the voice-room application   *)
(* (server/src/signaling.ts): the rooms and sessions maps, the transport's *)
(* room subscriptions, and one action per inbound event handler.  Every    *)
(* handler runs to completion (Node's single-threaded event loop), so each *)
(* action is one whole handler; the messages it emits are kept, in order,  *)
(* in `emitted`.                                                           *)
(***************************************************************************)
EXTENDS Integers, Sequences, FiniteSets, TLC

\* Number of connections the transport hands out during a run.
NumSockets == 2

\* socket.id values, handed out by the transport in this order.
SocketNames == <<"s1", "s2", "s3", "s4", "s5">>
Sockets == {SocketNames[i] : i \in 1..NumSockets}

GLOBAL_ROOM_ID == "global-room"

\* ---------------------------------------------------------------- inputs
\* userId strings are sequences of characters, so that trim() is computed.
RawUserIds == {<<>>, <<" ">>, <<" ", "a", " ">>, <<"b">>}

\* The roomId a join-room payload may carry.
RoomNames == {GLOBAL_ROOM_ID, "other-room"}

\* join-room payloads: no payload object, an object without userId, an
\* object whose userId is a number, an object whose userId is a string; the
\* payload's roomId is the room the server uses or, for one userId, another.
JoinPayloads ==
  {[shape |-> sh, userId |-> <<>>, roomId |-> GLOBAL_ROOM_ID] :
     sh \in {"absent", "undefined", "number"}}
    \cup {[shape |-> "string", userId |-> s, roomId |-> GLOBAL_ROOM_ID] :
            s \in RawUserIds}
    \cup {[shape |-> "string", userId |-> <<"b">>, roomId |-> r] : r \in RoomNames}

\* set-muted payloads: no payload object, or an object whose muted field is
\* the named JavaScript value.
MutedPayloads ==
  {[shape |-> "absent", muted |-> "undefined"]}
    \cup {[shape |-> "object", muted |-> m] : m \in {"true", "false"}}

\* offer / answer / ice-candidate payloads: `to` is any string the client
\* chooses (a socket id, whether or not that socket is connected, or the
\* room's name), `data` the opaque sdp or candidate (one of two values).
RelayTargets == Sockets \cup {GLOBAL_ROOM_ID}
RelayPayloads ==
  {[shape |-> "absent", to |-> "", data |-> "x"]}
    \cup {[shape |-> "object", to |-> t,
            data |-> IF t = GLOBAL_ROOM_ID THEN "y" ELSE "x"] : t \in RelayTargets}

VARIABLES
  rooms,      \* signaling.ts:8   room id -> insertion-ordered list of Participant
  sessions,   \* signaling.ts:9   socket id -> SessionData
  status,     \* each socket: "new" (not yet connected), "open", "closed"
  sids,       \* the transport's subscriptions: socket id -> set of room names
  denied,     \* the userIds the admission predicate refuses (none in the source)
  crashed,    \* an event handler threw: the process is gone
  emitted,    \* the emit calls of the last handler, in order
  lastEvent,  \* the inbound event the last handler served
  removals,   \* history: for each socket that has joined, whether leave-room or
              \* disconnect has run for it since its last successful join
  lastUpdate  \* for each member, the participant list of the last
              \* participant-update delivered to it (what its client shows)

\* The browser clients, each checked in a specification of its own.
VARIABLES
  args,         \* part_000:65      the ConnectArgs of connect(): args.roomId
  roomHostId,   \* part_000:45,71   VoiceClient.roomHostId, <<>> for null
  host,         \* part_001:28-46   the fields of the VoiceClient that claims the room
  conns,        \* part_001:290     the data connections opened to the host's peer
  hostEvent,    \* the event the host served last and the participant-list it sent
  hostClaim,    \* part_001:166-203 tryBecomeHost's locals: hostPeer, settled, the timer
  client,       \* voiceClient.ts:20-28  socket, localStream and status of the VoiceClient
  connectCalls, \* voiceClient.ts:42     where each connect() call stands
  clientSockets,\* voiceClient.ts:64     the sockets connect() created: state, events sent
  cancelled,    \* history: the connect() calls that were waiting for the microphone
                \* when disconnect() ran, emptied by the next connect() call
  mesh,         \* part_001:28-46   the VoiceClients of one room, by peer id
  ringing,      \* part_001:364     media calls made and not yet delivered to the callee
  round,        \* the participant list being distributed, who has processed it,
                \* and history: the calls started for it, the calls a client
                \* held already, the calls started to a peer already in a call
  elect,        \* part_000:31-49   the fields of the per-room VoiceClient
  claims        \* part_000:65-246  where each connect() call stands, and the peers
                \* and control connection it created

serverVars == <<rooms, sessions, status, sids, denied, crashed, emitted, lastEvent,
                removals, lastUpdate>>
roomVars == <<args, roomHostId>>
hostVars == <<host, conns, hostEvent, hostClaim>>
sioVars == <<client, connectCalls, clientSockets, cancelled>>
callVars == <<mesh, ringing, round>>
electVars == <<elect, claims>>
clientVars == <<roomVars, hostVars, sioVars, callVars, electVars>>
vars == <<serverVars, clientVars>>

\* ------------------------------------------------------------ JavaScript
IsSpace(ch) == ch = " "

\* trim() left out: the string is used as typed.
Trim_Missing(s) == s

\* String.prototype.trim
RECURSIVE TrimLeft(_)
TrimLeft(s) == IF s # <<>> /\ IsSpace(Head(s)) THEN TrimLeft(Tail(s)) ELSE s

RECURSIVE TrimRight(_)
TrimRight(s) ==
  IF s # <<>> /\ IsSpace(s[Len(s)]) THEN TrimRight(SubSeq(s, 1, Len(s) - 1)) ELSE s

Trim(s) == TrimRight(TrimLeft(s))

\* Everything but the literal false counts as muted.
JsBoolean_NotFalse(v) == v # "false"

\* Boolean(payload?.muted)
JsBoolean(v) == v = "true"

\* Map over an insertion-ordered list of Participant, keyed by socketId.
MapKeys(m) == {m[i].socketId : i \in 1..Len(m)}
MapHas(m, k) == k \in MapKeys(m)
MapGet(m, k) == m[CHOOSE i \in 1..Len(m) : m[i].socketId = k]
MapDelete(m, k) == SelectSeq(m, LAMBDA p : p.socketId # k)
MapSet(m, k, p) ==
  IF MapHas(m, k)
    THEN [i \in 1..Len(m) |-> IF m[i].socketId = k THEN p ELSE m[i]]
    ELSE Append(m, p)

\* f without key k
Without(f, k) == [x \in (DOMAIN f) \ {k} |-> f[x]]
\* f with key k set to v
With(f, k, v) == [x \in (DOMAIN f) \cup {k} |-> IF x = k THEN v ELSE f[x]]

\* ------------------------------------------------------------- transport
\* io.to(room): every socket subscribed to `room`; each connected socket is
\* subscribed to the room named by its own id.
IoTo(sd, room) == {s \in Sockets : room \in sd[s]}

\* socket.to(room): the same, without the socket itself.
SocketTo(sd, s, room) == IoTo(sd, room) \ {s}

Emit(ev, recipients, payload) == [event |-> ev, to |-> recipients, data |-> payload]

\* ------------------------------------------------------------- signaling
\* Only the first value of the map is returned.
getRoomParticipants_Partial(rms, roomId) ==
  IF roomId \in DOMAIN rms THEN SubSeq(rms[roomId], 1, 1) ELSE <<>>

getRoomParticipants(rms, roomId) ==
  IF roomId \in DOMAIN rms THEN rms[roomId] ELSE <<>>

\* The source's predicate returns true for every user: `denied` is empty in
\* Spec.  SpecGate starts with a predicate that refuses some userIds, which is
\* the only way the FORBIDDEN branch of join-room is ever taken.
canTalk(userId, roomId) == userId \notin denied

broadcastParticipantUpdate(sd, rms, roomId) ==
  Emit("participant-update", IoTo(sd, roomId),
       [roomId |-> roomId, participants |-> getRoomParticipants(rms, roomId)])

\* The member is deleted, a room left empty is kept.
RoomsAfterDelete_KeepEmpty(rms, roomId, id) ==
  IF roomId \in DOMAIN rms THEN With(rms, roomId, MapDelete(rms[roomId], id)) ELSE rms

\* The member is not deleted from the room.
RoomsAfterDelete_Kept(rms, roomId, id) == rms

\* room.delete(socket.id) and the deletion of a room left empty
RoomsAfterDelete(rms, roomId, id) ==
  IF roomId \in DOMAIN rms
    THEN LET room == MapDelete(rms[roomId], id)
         IN  IF Len(room) = 0 THEN Without(rms, roomId) ELSE With(rms, roomId, room)
    ELSE rms

\* The notice goes to the rooms the socket is subscribed to when the handler
\* runs (socket.rooms), which the transport has emptied before "disconnect".
PeerLeft_ViaSocketRooms(sd, roomId, id) ==
  Emit("peer-left", UNION {IoTo(sd, r) : r \in sd[id] \ {id}}, [socketId |-> id])

\* The notice goes to the departing socket's own room instead of the voice room.
PeerLeft_ToSelf(sd, roomId, id) == Emit("peer-left", IoTo(sd, id), [socketId |-> id])

\* io.to(session.roomId).emit("peer-left", { socketId: socket.id })
PeerLeft(sd, roomId, id) == Emit("peer-left", IoTo(sd, roomId), [socketId |-> id])

\* The socket stays subscribed to the room it leaves.
SocketLeave_Skipped(sd, id, roomId) == sd

\* socket.leave(roomId)
SocketLeave(sd, id, roomId) == [sd EXCEPT ![id] = @ \ {roomId}]

\* The session is not deleted.
SessionsAfterDelete_Kept(ses, id) == ses

\* sessions.delete(socket.id)
SessionsAfterDelete(ses, id) == Without(ses, id)

\* No early return: without a session the global room is cleaned up anyway.
removeSocketFromRoom_NoGuard(st, id) ==
  LET roomId == IF id \in DOMAIN st.sessions THEN st.sessions[id].roomId ELSE GLOBAL_ROOM_ID
      rooms1 == RoomsAfterDelete(st.rooms, roomId, id)
      left == PeerLeft(st.sids, roomId, id)
      sids1 == SocketLeave(st.sids, id, roomId)
      sessions1 == SessionsAfterDelete(st.sessions, id)
  IN  [rooms |-> rooms1, sessions |-> sessions1, sids |-> sids1,
       out |-> st.out \o <<left, broadcastParticipantUpdate(sids1, rooms1, roomId)>>]

\* The state a handler works on: st.rooms, st.sessions, st.sids, and st.out,
\* the emit calls made so far.
removeSocketFromRoom(st, id) ==
  IF id \notin DOMAIN st.sessions
    THEN st
    ELSE LET session == st.sessions[id]
             rooms1 == RoomsAfterDelete(st.rooms, session.roomId, id)
             left == PeerLeft(st.sids, session.roomId, id)
             sids1 == SocketLeave(st.sids, id, session.roomId)
             sessions1 == SessionsAfterDelete(st.sessions, id)
         IN  [rooms |-> rooms1, sessions |-> sessions1, sids |-> sids1,
              out |-> st.out \o <<left, broadcastParticipantUpdate(sids1, rooms1, session.roomId)>>]

Current == [rooms |-> rooms, sessions |-> sessions, sids |-> sids, out |-> <<>>]

\* The client of socket c keeps the list of the last participant-update it
\* was sent; messages are delivered in the order emitted.  Kept for members.
Received(lu, out, members) ==
  [c \in members |->
     LET got == {i \in 1..Len(out) : out[i].event = "participant-update" /\ c \in out[i].to}
     IN  IF got # {}
           THEN out[CHOOSE i \in got : \A j \in got : j <= i].data.participants
           ELSE IF c \in DOMAIN lu THEN lu[c] ELSE <<>>]

Commit(st) ==
  /\ rooms' = st.rooms
  /\ sessions' = st.sessions
  /\ sids' = st.sids
  /\ emitted' = st.out
  /\ lastUpdate' = Received(lastUpdate, st.out,
                            UNION {MapKeys(st.rooms[r]) : r \in DOMAIN st.rooms})

\* A handler threw: nothing it did before the throw changed the maps.
Throw ==
  /\ crashed' = TRUE
  /\ emitted' = <<>>
  /\ UNCHANGED <<rooms, sessions, sids, lastUpdate>>

Serving(name, id, payload) ==
  lastEvent' = [name |-> name, socket |-> id, payload |-> payload]

\* One more run of the removal path for id is recorded.
RemovalRun(rm, id) == IF id \in DOMAIN rm THEN With(rm, id, TRUE) ELSE rm

Live(id) == ~crashed /\ status[id] = "open"

\* No client has called connect().
RoomIdle ==
  /\ args = [roomId |-> <<>>]
  /\ roomHostId = <<>>

\* Data connections to the host, named in the order they are opened.
MaxConns == 2
ConnNames == <<"c1", "c2", "c3", "c4">>
Conns == {ConnNames[i] : i \in 1..MaxConns}

\* The VoiceClient as constructed (part_001:28-46).
NewVoiceClient ==
  [peer |-> "null", localStream |-> "null", calls |-> {}, hostConnections |-> <<>>,
   hostControlConnection |-> "null", selfPeerId |-> "null", isHost |-> FALSE,
   participants |-> <<>>, status |-> "Disconnected"]

NoHostEvent ==
  [name |-> "none", conn |-> "none", msg |-> [type |-> "none"],
   sent |-> [to |-> {}, participants |-> <<>>]]

HostIdle ==
  /\ host = NewVoiceClient
  /\ conns = [c \in Conns |-> "new"]
  /\ hostEvent = NoHostEvent
  /\ hostClaim = [hostPeer |-> "none", settled |-> FALSE, timer |-> "idle"]

\* connect() calls, named in the order they are made; the socket a call
\* creates carries the call's name.
MaxConnectCalls == 2
CallNames == <<"k1", "k2", "k3", "k4">>
Calls == {CallNames[i] : i \in 1..MaxConnectCalls}

SioIdle ==
  /\ client = [socket |-> "null", localStream |-> "null", status |-> "Disconnected"]
  /\ connectCalls = [k \in Calls |-> "idle"]
  /\ clientSockets = [k \in Calls |-> [state |-> "none", sent |-> {}]]
  /\ cancelled = {}

NoRound == [list |-> <<>>, done |-> {}, started |-> {}, held |-> {}, doubled |-> {}]

CallsIdle ==
  /\ mesh = <<>>
  /\ ringing = {}
  /\ round = NoRound

\* The per-room VoiceClient as constructed (part_000:31-49).
NoPeer == [kind |-> "null", of |-> "none"]

NewRoomClient ==
  [peer |-> NoPeer, localStream |-> "null", hostControlConnection |-> "null",
   selfPeerId |-> "null", roomHostId |-> "null", isHost |-> FALSE,
   participants |-> {}, status |-> "Disconnected"]

NewClaim ==
  [pc |-> "new", hostPeer |-> "none", settled |-> FALSE, timer |-> "idle",
   clientPeer |-> "none", control |-> "none"]

ElectIdle ==
  /\ elect = NewRoomClient
  /\ claims = [k \in Calls |-> NewClaim]

ClientIdle == RoomIdle /\ HostIdle /\ SioIdle /\ CallsIdle /\ ElectIdle

\* The server has started and no socket has connected.
ServerIdle ==
  /\ rooms = <<>>
  /\ sessions = <<>>
  /\ status = [s \in Sockets |-> "new"]
  /\ sids = [s \in Sockets |-> {}]
  /\ denied = {}
  /\ crashed = FALSE
  /\ emitted = <<>>
  /\ lastEvent = [name |-> "none", socket |-> "none", payload |-> [shape |-> "absent"]]
  /\ removals = <<>>
  /\ lastUpdate = <<>>

Init == ServerIdle /\ ClientIdle

\* io.on("connection"): the transport opens the next socket and subscribes
\* it to the room named by its id.
Connect(i) ==
  /\ ~crashed
  /\ status[SocketNames[i]] = "new"
  /\ \A j \in 1..(i - 1) : status[SocketNames[j]] # "new"
  /\ status' = [status EXCEPT ![SocketNames[i]] = "open"]
  /\ sids' = [sids EXCEPT ![SocketNames[i]] = {SocketNames[i]}]
  /\ emitted' = <<>>
  /\ Serving("connection", SocketNames[i], [shape |-> "absent"])
  /\ UNCHANGED <<rooms, sessions, denied, crashed, removals, lastUpdate>>
  /\ UNCHANGED clientVars

\* payload.userId?.trim() throws when there is no payload object or when
\* userId is not a string (and not null/undefined).
JoinThrows(payload) == payload.shape \in {"absent", "number"}

\* payload.userId?.trim(); undefined and "" are both falsy, both are <<>> here.
JoinUserId(payload) ==
  IF payload.shape = "string" THEN Trim(payload.userId) ELSE <<>>

\* The room is the one the payload names.
JoinRoomId_FromPayload(payload) == payload.roomId

\* const roomId = GLOBAL_ROOM_ID: the payload's roomId is not read.
JoinRoomId(payload) == GLOBAL_ROOM_ID

VoiceError(id, code) == Emit("voice-error", {id}, [code |-> code])

\* rooms.get(roomId) ?? new Map(); rooms.set(roomId, room); room.set(socket.id, ...)
RoomsAfterSet(rms, roomId, id, userId) ==
  With(rms, roomId,
       MapSet(IF roomId \in DOMAIN rms THEN rms[roomId] ELSE <<>>, id,
              [socketId |-> id, userId |-> userId, muted |-> FALSE]))

\* The session is not stored.
SessionsAfterSet_Skipped(ses, roomId, id, userId) == ses

\* The session starts muted.
SessionsAfterSet_Muted(ses, roomId, id, userId) ==
  With(ses, id, [roomId |-> roomId, userId |-> userId, muted |-> TRUE])

SessionsAfterSet(ses, roomId, id, userId) ==
  With(ses, id, [roomId |-> roomId, userId |-> userId, muted |-> FALSE])

\* The socket is not subscribed to the room.
SocketJoin_Skipped(sd, id, roomId) == sd

\* socket.join(roomId)
SocketJoin(sd, id, roomId) == [sd EXCEPT ![id] = @ \cup {roomId}]

\* The requester is not filtered out of the list.
existingParticipants_Unfiltered(rms, roomId, id) == getRoomParticipants(rms, roomId)

existingParticipants(rms, roomId, id) ==
  SelectSeq(getRoomParticipants(rms, roomId), LAMBDA p : p.socketId # id)

\* The room-wide update is sent before the acknowledgment and the arrival notice.
JoinEmits_UpdateFirst(sd, rms, roomId, id, userId) ==
  << broadcastParticipantUpdate(sd, rms, roomId),
     Emit("joined-room", {id},
          [roomId |-> roomId, selfSocketId |-> id,
           participants |-> existingParticipants(rms, roomId, id)]),
     Emit("participant-joined", SocketTo(sd, id, roomId),
          [socketId |-> id, userId |-> userId]) >>

\* The three emit calls that end a successful join, in the order made.
JoinEmits(sd, rms, roomId, id, userId) ==
  << Emit("joined-room", {id},
          [roomId |-> roomId, selfSocketId |-> id,
           participants |-> existingParticipants(rms, roomId, id)]),
     Emit("participant-joined", SocketTo(sd, id, roomId),
          [socketId |-> id, userId |-> userId]),
     broadcastParticipantUpdate(sd, rms, roomId) >>

\* The previous membership is not removed before the new one is inserted.
Admit_NoRemoval(st, roomId, id, userId) ==
  LET rooms2 == RoomsAfterSet(st.rooms, roomId, id, userId)
      sessions2 == SessionsAfterSet(st.sessions, roomId, id, userId)
      sids2 == SocketJoin(st.sids, id, roomId)
  IN  [rooms |-> rooms2, sessions |-> sessions2, sids |-> sids2,
       out |-> st.out \o JoinEmits(sids2, rooms2, roomId, id, userId)]

\* The body of the join-room handler after both checks have passed.
Admit(st, roomId, id, userId) ==
  LET st1 == removeSocketFromRoom(st, id)
      rooms2 == RoomsAfterSet(st1.rooms, roomId, id, userId)
      sessions2 == SessionsAfterSet(st1.sessions, roomId, id, userId)
      sids2 == SocketJoin(st1.sids, id, roomId)
  IN  [rooms |-> rooms2, sessions |-> sessions2, sids |-> sids2,
       out |-> st1.out \o JoinEmits(sids2, rooms2, roomId, id, userId)]

\* The previous membership is removed before the admission check.
JoinResult_RemoveFirst(st, id, payload) ==
  LET roomId == GLOBAL_ROOM_ID
      userId == JoinUserId(payload)
      st1 == removeSocketFromRoom(st, id)
  IN  IF userId = <<>>
        THEN [st EXCEPT !.out = <<VoiceError(id, "INVALID_JOIN")>>]
        ELSE IF ~canTalk(userId, roomId)
          THEN [st1 EXCEPT !.out = <<VoiceError(id, "FORBIDDEN")>>]
          ELSE Admit(st, roomId, id, userId)

\* What the join-room handler does to the maps and what it emits.
JoinResult(st, id, payload) ==
  LET roomId == JoinRoomId(payload)
      userId == JoinUserId(payload)
  IN  IF userId = <<>>
        THEN [st EXCEPT !.out = <<VoiceError(id, "INVALID_JOIN")>>]
        ELSE IF ~canTalk(userId, roomId)
          THEN [st EXCEPT !.out = <<VoiceError(id, "FORBIDDEN")>>]
          ELSE Admit(st, roomId, id, userId)

Admitted(payload) ==
  /\ ~JoinThrows(payload)
  /\ JoinUserId(payload) # <<>>
  /\ canTalk(JoinUserId(payload), GLOBAL_ROOM_ID)

\* socket.on("join-room")
JoinRoom(id, payload) ==
  /\ Live(id)
  /\ Serving("join-room", id, payload)
  /\ IF JoinThrows(payload)
       THEN Throw /\ UNCHANGED removals
       ELSE /\ Commit(JoinResult(Current, id, payload))
            /\ removals' = IF Admitted(payload) THEN With(removals, id, FALSE) ELSE removals
            /\ UNCHANGED crashed
  /\ UNCHANGED <<status, denied>>
  /\ UNCHANGED clientVars

\* socket.on("leave-room")
LeaveRoom(id) ==
  /\ Live(id)
  /\ Serving("leave-room", id, [shape |-> "absent"])
  /\ Commit(removeSocketFromRoom(Current, id))
  /\ removals' = RemovalRun(removals, id)
  /\ UNCHANGED <<status, denied, crashed>>
  /\ UNCHANGED clientVars

\* The participant record is updated, the session is not.
MutedResult_SessionStale(st, id, payload) ==
  IF id \notin DOMAIN st.sessions \/ GLOBAL_ROOM_ID \notin DOMAIN st.rooms
    THEN st
    ELSE LET room == st.rooms[GLOBAL_ROOM_ID]
             participant == [MapGet(room, id) EXCEPT !.muted = JsBoolean(payload.muted)]
             rooms1 == With(st.rooms, GLOBAL_ROOM_ID, MapSet(room, id, participant))
         IN  [st EXCEPT !.rooms = rooms1,
               !.out = <<broadcastParticipantUpdate(st.sids, rooms1, GLOBAL_ROOM_ID)>>]

\* participant.muted = Boolean(payload?.muted); session.muted = participant.muted
MutedResult(st, id, payload) ==
  IF id \notin DOMAIN st.sessions
    THEN st
    ELSE LET session == st.sessions[id]
         IN  IF session.roomId \notin DOMAIN st.rooms
               THEN st
               ELSE LET room == st.rooms[session.roomId]
                    IN  IF ~MapHas(room, id)
                          THEN st
                          ELSE LET muted == JsBoolean(payload.muted)
                                   participant == [MapGet(room, id) EXCEPT !.muted = muted]
                                   rooms1 == With(st.rooms, session.roomId,
                                                  MapSet(room, id, participant))
                                   sessions1 == With(st.sessions, id,
                                                     [session EXCEPT !.muted = participant.muted])
                               IN  [st EXCEPT !.rooms = rooms1, !.sessions = sessions1,
                                     !.out = <<broadcastParticipantUpdate(st.sids, rooms1,
                                                                          session.roomId)>>]

\* socket.on("set-muted")
SetMuted(id, payload) ==
  /\ Live(id)
  /\ Serving("set-muted", id, payload)
  /\ Commit(MutedResult(Current, id, payload))
  /\ UNCHANGED <<status, denied, crashed, removals>>
  /\ UNCHANGED clientVars

\* Only targets subscribed to the voice room are reached.
RelayRecipients_MembersOnly(sd, to) == IoTo(sd, to) \cap IoTo(sd, GLOBAL_ROOM_ID)

\* io.to(payload.to): the sockets the relayed message goes to.
RelayRecipients(sd, to) == IoTo(sd, to)

\* The message is tagged with the target's id instead of the sender's.
RelayEmit_FromTarget(st, kind, id, payload) ==
  Emit(kind, RelayRecipients(st.sids, payload.to),
       [from |-> payload.to, userId |-> st.sessions[id].userId, data |-> payload.data])

RelayEmit(st, kind, id, payload) ==
  Emit(kind, RelayRecipients(st.sids, payload.to),
       [from |-> id, userId |-> st.sessions[id].userId, data |-> payload.data])

\* No session check: the message is relayed for any connected sender.
Relay_Unchecked(kind, id, payload) ==
  /\ Live(id)
  /\ Serving(kind, id, payload)
  /\ IF payload.shape = "absent"
       THEN Throw
       ELSE /\ emitted' =
                 <<Emit(kind, RelayRecipients(sids, payload.to),
                        [from |-> id,
                         userId |-> IF id \in DOMAIN sessions
                                      THEN sessions[id].userId ELSE <<>>,
                         data |-> payload.data])>>
            /\ UNCHANGED <<rooms, sessions, sids, crashed, lastUpdate>>
  /\ UNCHANGED <<status, denied, removals>>
  /\ UNCHANGED clientVars

\* The relay also announces the room's participant list.
Relay_Announcing(kind, id, payload) ==
  /\ Live(id)
  /\ Serving(kind, id, payload)
  /\ IF id \notin DOMAIN sessions
       THEN /\ emitted' = <<>>
            /\ UNCHANGED <<rooms, sessions, sids, crashed, lastUpdate>>
       ELSE IF payload.shape = "absent"
         THEN Throw
         ELSE /\ emitted' = <<RelayEmit(Current, kind, id, payload),
                              broadcastParticipantUpdate(sids, rooms, GLOBAL_ROOM_ID)>>
              /\ UNCHANGED <<rooms, sessions, sids, crashed, lastUpdate>>
  /\ UNCHANGED <<status, denied, removals>>
  /\ UNCHANGED clientVars

\* The offer, answer and ice-candidate handlers differ only in the event name.
\* payload.to throws when there is no payload object, once the session is found.
Relay(kind, id, payload) ==
  /\ Live(id)
  /\ Serving(kind, id, payload)
  /\ IF id \notin DOMAIN sessions
       THEN /\ emitted' = <<>>
            /\ UNCHANGED <<rooms, sessions, sids, crashed, lastUpdate>>
       ELSE IF payload.shape = "absent"
         THEN Throw
         ELSE /\ emitted' = <<RelayEmit(Current, kind, id, payload)>>
              /\ UNCHANGED <<rooms, sessions, sids, crashed, lastUpdate>>
  /\ UNCHANGED <<status, denied, removals>>
  /\ UNCHANGED clientVars

\* socket.on("offer")
Offer(id, payload) == Relay("offer", id, payload)

\* socket.on("answer")
Answer(id, payload) == Relay("answer", id, payload)

\* socket.on("ice-candidate")
IceCandidate(id, payload) == Relay("ice-candidate", id, payload)

\* The transport closes the socket: it drops every subscription of the
\* socket, then runs socket.on("disconnect").
LeaveAll(sd, id) == [sd EXCEPT ![id] = {}]

Disconnect(id) ==
  /\ Live(id)
  /\ Serving("disconnect", id, [shape |-> "absent"])
  /\ status' = [status EXCEPT ![id] = "closed"]
  /\ Commit(removeSocketFromRoom([Current EXCEPT !.sids = LeaveAll(sids, id)], id))
  /\ removals' = RemovalRun(removals, id)
  /\ UNCHANGED <<denied, crashed>>
  /\ UNCHANGED clientVars

Next ==
  \/ \E i \in 1..NumSockets : Connect(i)
  \/ \E id \in Sockets, payload \in JoinPayloads : JoinRoom(id, payload)
  \/ \E id \in Sockets : LeaveRoom(id)
  \/ \E id \in Sockets, payload \in MutedPayloads : SetMuted(id, payload)
  \/ \E id \in Sockets, payload \in RelayPayloads : Offer(id, payload)
  \/ \E id \in Sockets, payload \in RelayPayloads : Answer(id, payload)
  \/ \E id \in Sockets, payload \in RelayPayloads : IceCandidate(id, payload)
  \/ \E id \in Sockets : Disconnect(id)

Spec == Init /\ [][Next]_vars

\* The admission predicate is a substitution point; the source's returns TRUE.
\* InitGate starts the server with any other predicate over the userIds.
UserIds == {Trim(s) : s \in RawUserIds} \ {<<>>}

InitGate ==
  /\ ClientIdle
  /\ rooms = <<>>
  /\ sessions = <<>>
  /\ status = [s \in Sockets |-> "new"]
  /\ sids = [s \in Sockets |-> {}]
  /\ denied \in (SUBSET UserIds) \ {{}}
  /\ crashed = FALSE
  /\ emitted = <<>>
  /\ lastEvent = [name |-> "none", socket |-> "none", payload |-> [shape |-> "absent"]]
  /\ removals = <<>>
  /\ lastUpdate = <<>>

SpecGate == InitGate /\ [][Next]_vars

\* ------------------------------------------- room host id (PeerJS client)
\* Room names are sequences of characters.  A name is a head, a run of "z"
\* and a tail, so that names around the truncation length are among them.
MaxEdge == 1
MaxHostIdLen == 36

RoomChars == {"a", "B", "7", "_", "-", "!", " "}

EdgeStrings == UNION {[1..n -> RoomChars] : n \in 0..MaxEdge}

PadLens == {0, MaxHostIdLen - 2, MaxHostIdLen - 1, MaxHostIdLen}

Pad(k) == [i \in 1..k |-> "z"]

RoomIds == {h \o Pad(k) \o t : h \in EdgeStrings, t \in EdgeStrings, k \in PadLens}

\* String.prototype.toLowerCase, on the characters used here.
LowerChar(ch) == IF ch = "B" THEN "b" ELSE ch

toLowerCase(s) == [i \in 1..Len(s) |-> LowerChar(s[i])]

\* The characters the pattern [^a-z0-9_-] does not match.
AllowedChars ==
  {"a", "b", "c", "d", "e", "f", "g", "h", "i", "j", "k", "l", "m", "n", "o", "p", "q",
   "r", "s", "t", "u", "v", "w", "x", "y", "z", "0", "1", "2", "3", "4", "5", "6", "7",
   "8", "9", "_", "-"}

\* The characters outside the pattern are removed.
ReplaceDisallowed_Strip(s) == SelectSeq(s, LAMBDA ch : ch \in AllowedChars)

\* .replace(/[^a-z0-9_-]/g, "-")
ReplaceDisallowed(s) == [i \in 1..Len(s) |-> IF s[i] \in AllowedChars THEN s[i] ELSE "-"]

\* .slice(0, n)
Slice(s, n) == SubSeq(s, 1, IF Len(s) < n THEN Len(s) ELSE n)

RoomPrefix == <<"r", "o", "o", "m", "-">>
DefaultRoom == <<"g", "l", "o", "b", "a", "l">>

toRoomHostId(roomId) ==
  LET normalized == Slice(ReplaceDisallowed(Trim(toLowerCase(roomId))), MaxHostIdLen)
  IN  RoomPrefix \o (IF normalized = <<>> THEN DefaultRoom ELSE normalized)

\* connect(args) is called with some room name.
InitRoom ==
  /\ ServerIdle
  /\ HostIdle
  /\ SioIdle
  /\ CallsIdle
  /\ ElectIdle
  /\ args \in {[roomId |-> r] : r \in RoomIds}
  /\ roomHostId = <<>>

\* this.roomHostId = toRoomHostId(args.roomId)
SetRoomHostId ==
  /\ roomHostId = <<>>
  /\ roomHostId' = toRoomHostId(args.roomId)
  /\ UNCHANGED <<args, serverVars, hostVars, sioVars, callVars, electVars>>

NextRoom == SetRoomHostId

SpecRoom == InitRoom /\ [][NextRoom]_vars

\* ------------------------------------------------- room host (PeerJS client)
\* toHostPeerId()
HostPeerId == "room-global-room"

\* Peer ids the signaling network hands to the other clients.
RemotePeerIds == {"a1", "z9"}

\* The order String.prototype.localeCompare puts these ids in.
PeerOrder == <<"a1", "room-global-room", "z9">>
Rank(pid) == CHOOSE i \in 1..Len(PeerOrder) : PeerOrder[i] = pid
\* a.localeCompare(b) <= 0
LocaleCompareLe(a, b) == Rank(a) <= Rank(b)

\* The messages a data connection can deliver to the host: peerId is whatever
\* the sender wrote, the host's own id included.
HostMessages ==
  {[type |-> "join-request", peerId |-> pid, userId |-> "u", muted |-> FALSE] :
     pid \in RemotePeerIds \cup {HostPeerId}}
    \cup {[type |-> "leave-request", peerId |-> pid, userId |-> "", muted |-> FALSE] :
            pid \in RemotePeerIds \cup {HostPeerId}}
    \cup {[type |-> "mute-update", peerId |-> pid, userId |-> "", muted |-> m] :
            pid \in RemotePeerIds \cup {HostPeerId}, m \in BOOLEAN}
    \cup {[type |-> "host-closing", peerId |-> "", userId |-> "", muted |-> FALSE]}

\* hostConnections: an insertion-ordered Map from peer id to data connection.
HcKeys(m) == {m[i].peerId : i \in 1..Len(m)}
HcValues(m) == {m[i].conn : i \in 1..Len(m)}
HcSet(m, k, c) ==
  IF k \in HcKeys(m)
    THEN [i \in 1..Len(m) |-> IF m[i].peerId = k THEN [peerId |-> k, conn |-> c] ELSE m[i]]
    ELSE Append(m, [peerId |-> k, conn |-> c])
HcDelete(m, k) == SelectSeq(m, LAMBDA e : e.peerId # k)

\* removeCall(peerId)
removeCall(h, peerId) == [h EXCEPT !.calls = @ \ {peerId}]

\* Every listed peer but the client itself is called, whatever the order of
\* the ids.
CallTargets_Unordered(h, list) ==
  {q \in MapKeys(list) : q # h.selfPeerId /\ q \notin h.calls}

\* The second loop of reconcileCalls: the listed peers peer.call is made to.
CallTargets(h, list) ==
  {q \in MapKeys(list) : /\ q # h.selfPeerId
                         /\ q \notin h.calls
                         /\ ~LocaleCompareLe(h.selfPeerId, q)}

\* reconcileCalls(participants): calls to peers no longer listed are closed;
\* a listed peer is called when this client's id orders after it.
reconcileCalls(h, list) ==
  IF h.peer = "null" \/ h.localStream = "null" \/ h.selfPeerId = "null"
    THEN h
    ELSE LET kept == [h EXCEPT !.calls = @ \cap MapKeys(list)]
         IN  [kept EXCEPT !.calls = @ \cup CallTargets(kept, list)]

\* broadcastParticipantList(): the host's state afterwards and what was sent
\* to which data connections.
broadcastParticipantList(h, cn) ==
  [host |-> reconcileCalls(h, h.participants),
   sent |-> [to |-> {c \in HcValues(h.hostConnections) : cn[c] = "open"},
             participants |-> h.participants]]

Unsent(h) == [host |-> h, sent |-> NoHostEvent.sent]

\* removeParticipant(peerId)
removeParticipant(h, peerId) ==
  removeCall([h EXCEPT !.participants = MapDelete(@, peerId),
                       !.hostConnections = HcDelete(@, peerId)], peerId)

\* getPeerIdByConnection(connection): the first entry holding the connection.
getPeerIdByConnection(h, c) ==
  LET at == {i \in 1..Len(h.hostConnections) : h.hostConnections[i].conn = c}
  IN  IF at = {} THEN "null"
      ELSE h.hostConnections[CHOOSE i \in at : \A j \in at : i <= j].peerId

HostCommit(name, c, msg, res) ==
  /\ host' = res.host
  /\ hostEvent' = [name |-> name, conn |-> c, msg |-> msg, sent |-> res.sent]

\* connect() has the microphone and tryBecomeHost has created the host peer
\* and set its 3-second timer.
InitHost ==
  /\ ServerIdle
  /\ RoomIdle
  /\ SioIdle
  /\ CallsIdle
  /\ ElectIdle
  /\ host = [NewVoiceClient EXCEPT !.status = "Connecting", !.localStream = "mic"]
  /\ conns = [c \in Conns |-> "new"]
  /\ hostEvent = NoHostEvent
  /\ hostClaim = [hostPeer |-> "pending", settled |-> FALSE, timer |-> "armed"]

\* hostPeer.on("open"), then connect() resumes with becameHost = true.
HostPeerOpen ==
  /\ hostClaim.hostPeer = "pending"
  /\ host.peer = "null"
  /\ host.status = "Connecting"
  /\ hostClaim' = [hostClaim EXCEPT !.hostPeer = "open", !.settled = TRUE]
  /\ LET h1 == [host EXCEPT !.peer = "hostPeer", !.selfPeerId = HostPeerId,
                            !.isHost = TRUE,
                            !.participants =
                               MapSet(@, HostPeerId,
                                      [socketId |-> HostPeerId, userId |-> "h",
                                       muted |-> FALSE])]
         res == broadcastParticipantList(h1, conns)
     IN  HostCommit("open", "none", NoHostEvent.msg,
                    [res EXCEPT !.host.status = "Connected"])
  /\ UNCHANGED <<conns, serverVars, roomVars, sioVars, callVars, electVars>>

\* peer.on("connection"): a remote peer's data connection opens.
Connection(i) ==
  /\ host.isHost
  /\ conns[ConnNames[i]] = "new"
  /\ \A j \in 1..(i - 1) : conns[ConnNames[j]] # "new"
  /\ conns' = [conns EXCEPT ![ConnNames[i]] = "open"]
  /\ HostCommit("connection", ConnNames[i], NoHostEvent.msg, Unsent(host))
  /\ UNCHANGED <<hostClaim, serverVars, roomVars, sioVars, callVars, electVars>>

\* The participant named by the message, not the sender, is looked up.
OnData(h, cn, c, msg) ==
  IF msg.type = "join-request"
    THEN broadcastParticipantList(
           [h EXCEPT !.hostConnections = HcSet(@, msg.peerId, c),
                     !.participants =
                        MapSet(@, msg.peerId,
                               [socketId |-> msg.peerId, userId |-> msg.userId,
                                muted |-> FALSE])], cn)
    ELSE IF msg.type = "leave-request"
      THEN broadcastParticipantList(removeParticipant(h, msg.peerId), cn)
      ELSE IF msg.type = "mute-update" /\ MapHas(h.participants, msg.peerId)
        THEN broadcastParticipantList(
               [h EXCEPT !.participants =
                  MapSet(@, msg.peerId,
                         [MapGet(h.participants, msg.peerId) EXCEPT !.muted = msg.muted])],
               cn)
        ELSE Unsent(h)

\* conn.on("data")
Data(c, msg) ==
  /\ host.isHost
  /\ conns[c] = "open"
  /\ HostCommit("data", c, msg, OnData(host, conns, c, msg))
  /\ UNCHANGED <<conns, hostClaim, serverVars, roomVars, sioVars, callVars, electVars>>

\* conn.on("close")
ConnClose(c) ==
  /\ host.isHost
  /\ conns[c] = "open"
  /\ conns' = [conns EXCEPT ![c] = "closed"]
  /\ LET peerId == getPeerIdByConnection(host, c)
     IN  HostCommit("close", c, NoHostEvent.msg,
                    IF peerId = "null"
                      THEN Unsent(host)
                      ELSE broadcastParticipantList(removeParticipant(host, peerId),
                                                    conns'))
  /\ UNCHANGED <<hostClaim, serverVars, roomVars, sioVars, callVars, electVars>>

\* setMuted(muted) on the host
HostSetMuted(muted) ==
  /\ host.isHost
  /\ HostCommit("setMuted", "none", [NoHostEvent.msg EXCEPT !.type = "local"],
                IF host.localStream = "null" \/ host.selfPeerId = "null"
                     \/ ~MapHas(host.participants, host.selfPeerId)
                  THEN Unsent(host)
                  ELSE broadcastParticipantList(
                         [host EXCEPT !.participants =
                            MapSet(@, host.selfPeerId,
                                   [MapGet(host.participants, host.selfPeerId)
                                      EXCEPT !.muted = muted])], conns))
  /\ UNCHANGED <<conns, hostClaim, serverVars, roomVars, sioVars, callVars, electVars>>

\* disconnect() on the host, called by the user or by peer.on("disconnected"):
\* host-closing goes to the registered open connections, peer.destroy()
\* closes every connection.
HostDisconnect ==
  /\ host.isHost
  /\ conns' = [c \in Conns |-> IF conns[c] = "open" THEN "closed" ELSE conns[c]]
  /\ host' = NewVoiceClient
  /\ hostEvent' = [NoHostEvent EXCEPT !.name = "disconnect"]
  /\ hostClaim' = [hostClaim EXCEPT !.hostPeer = "destroyed"]
  /\ UNCHANGED <<serverVars, roomVars, sioVars, callVars, electVars>>

\* The setTimeout callback of tryBecomeHost, 3 seconds after the claim:
\* hostPeer.destroy(), then finish(false).  Nothing clears the timer.  A host
\* peer that has opened emits "disconnected" when destroyed, which runs
\* disconnect(); when the claim was still pending, connect() resumes with
\* false and joinAsClient creates the client's peer.
HostClaimTimeout ==
  /\ hostClaim.timer = "armed"
  /\ hostClaim' = [hostClaim EXCEPT !.timer = "fired", !.settled = TRUE,
                     !.hostPeer = "destroyed"]
  /\ IF hostClaim.hostPeer = "open"
       THEN /\ host' = NewVoiceClient
            /\ conns' = [c \in Conns |-> IF conns[c] = "open" THEN "closed" ELSE conns[c]]
       ELSE /\ host' = IF hostClaim.hostPeer = "pending"
                         THEN [host EXCEPT !.peer = "clientPeer"]
                         ELSE host
            /\ UNCHANGED conns
  /\ hostEvent' = [NoHostEvent EXCEPT !.name = "timeout"]
  /\ UNCHANGED <<serverVars, roomVars, sioVars, callVars, electVars>>

NextHost ==
  \/ HostPeerOpen
  \/ HostClaimTimeout
  \/ \E i \in 1..MaxConns : Connection(i)
  \/ \E c \in Conns, msg \in HostMessages : Data(c, msg)
  \/ \E c \in Conns : ConnClose(c)
  \/ \E muted \in BOOLEAN : HostSetMuted(muted)
  \/ HostDisconnect

SpecHost == InitHost /\ [][NextHost]_vars

\* ------------------------------------------ media calls (PeerJS clients)
\* The clients of one room: the host and the peers the network named.
MeshPeers == RemotePeerIds \cup {HostPeerId}

\* The participant lists the host sends, Array.from(participants.values()):
\* the host and any of the other clients.
ListOf(S) ==
  LET ids == SelectSeq(PeerOrder, LAMBDA q : q \in S)
  IN  [i \in 1..Len(ids) |-> [socketId |-> ids[i], userId |-> "u", muted |-> FALSE]]
ParticipantLists == {ListOf(S \cup {HostPeerId}) : S \in SUBSET RemotePeerIds}

\* Every client has connected: it holds its microphone stream and its peer
\* has opened under its id; the host's peer carries the room's id.
InitCalls ==
  /\ ServerIdle
  /\ RoomIdle
  /\ HostIdle
  /\ SioIdle
  /\ ElectIdle
  /\ mesh = [p \in MeshPeers |->
               [NewVoiceClient EXCEPT !.peer = IF p = HostPeerId THEN "hostPeer" ELSE "peer",
                                      !.localStream = "mic",
                                      !.selfPeerId = p,
                                      !.isHost = (p = HostPeerId),
                                      !.hostControlConnection =
                                         IF p = HostPeerId THEN "null" ELSE "control",
                                      !.status = "Connected"]]
  /\ ringing = {}
  /\ round = NoRound

\* One client runs reconcileCalls on the list of the round: the calls it
\* makes start ringing at their callees.
Reconcile(p, list, r) ==
  LET made == IF mesh[p].peer = "null" \/ mesh[p].localStream = "null"
                   \/ mesh[p].selfPeerId = "null"
                THEN {}
                ELSE CallTargets([mesh[p] EXCEPT !.calls = @ \cap MapKeys(list)], list)
  IN  /\ mesh' = [mesh EXCEPT ![p] = reconcileCalls(@, list)]
      /\ ringing' = ringing \cup {<<p, q>> : q \in made}
      /\ round' = [r EXCEPT !.list = list,
                            !.done = @ \cup {p},
                            !.started = @ \cup {<<p, q>> : q \in made},
                            !.held = @ \cup {<<p, q>> : q \in mesh[p].calls \cap MapKeys(list)},
                            !.doubled = @ \cup {<<p, q>> : q \in made \cap mesh[p].calls}]

\* broadcastParticipantList() on the host: the list goes out to the room and
\* the host reconciles its own calls with it.
Broadcast(list) ==
  /\ mesh[HostPeerId].isHost
  /\ Reconcile(HostPeerId, list, NoRound)
  /\ UNCHANGED <<serverVars, roomVars, hostVars, sioVars, electVars>>

\* handleHostMessage: a client receives the participant-list of the round.
Receive(p) ==
  /\ p \in RemotePeerIds
  /\ round.done # {}
  /\ p \notin round.done
  /\ mesh[p].hostControlConnection # "null"
  /\ Reconcile(p, round.list, round)
  /\ UNCHANGED <<serverVars, roomVars, hostVars, sioVars, electVars>>

\* peer.on("call"): the callee answers with its stream and keeps the call; a
\* client without a stream closes it.
IncomingCall(p, q) ==
  /\ <<p, q>> \in ringing
  /\ ringing' = ringing \ {<<p, q>>}
  /\ mesh' = IF mesh[q].localStream = "null"
               THEN mesh
               ELSE [mesh EXCEPT ![q].calls = @ \cup {p}]
  /\ UNCHANGED <<round, serverVars, roomVars, hostVars, sioVars, electVars>>

\* The "close" or "error" event of a call: removeCall(peerId).
CallEnded(p, q) ==
  /\ q \in mesh[p].calls
  /\ mesh' = [mesh EXCEPT ![p] = removeCall(@, q)]
  /\ UNCHANGED <<ringing, round, serverVars, roomVars, hostVars, sioVars, electVars>>

\* disconnect() on a client of the room.
Leave(p) ==
  /\ p \in RemotePeerIds
  /\ mesh[p].status = "Connected"
  /\ mesh' = [mesh EXCEPT ![p] = NewVoiceClient]
  /\ UNCHANGED <<ringing, round, serverVars, roomVars, hostVars, sioVars, electVars>>

NextCalls ==
  \/ \E list \in ParticipantLists : Broadcast(list)
  \/ \E p \in MeshPeers : Receive(p)
  \/ \E p, q \in MeshPeers : IncomingCall(p, q)
  \/ \E p, q \in MeshPeers : CallEnded(p, q)
  \/ \E p \in MeshPeers : Leave(p)

SpecCalls == InitCalls /\ [][NextCalls]_vars

\* ------------------------------------- host election (per-room VoiceClient)
\* toRoomHostId(args.roomId), and the id the network gives a client's peer.
RoomPeerId == "room-lobby"
ClientPeerId == "client-id"

ElectErrors == {"unavailable-id", "network"}

InitElect ==
  /\ ServerIdle
  /\ RoomIdle
  /\ HostIdle
  /\ SioIdle
  /\ CallsIdle
  /\ elect = NewRoomClient
  /\ claims = [k \in Calls |-> NewClaim]

\* disconnect(): the control connection is closed, this.peer is destroyed and
\* every field is reset.
electDisconnect(e, cl) ==
  [elect |-> NewRoomClient,
   claims |-> [k \in Calls |->
                 [cl[k] EXCEPT
                    !.control = IF e.hostControlConnection = k /\ @ \in {"connecting", "open"}
                                  THEN "closed" ELSE @,
                    !.hostPeer = IF e.peer = [kind |-> "hostPeer", of |-> k]
                                   THEN "destroyed" ELSE @,
                    !.clientPeer = IF e.peer = [kind |-> "clientPeer", of |-> k]
                                     THEN "destroyed" ELSE @]]]

\* finalize(result) and what connect() does once tryBecomeHost has resolved:
\* Connected on true; on false joinAsClient creates the client's peer.
finalize(e, cl, k, result) ==
  IF cl[k].settled
    THEN [elect |-> e, claims |-> cl]
    ELSE IF result
      THEN [elect |-> [e EXCEPT !.status = "Connected"],
            claims |-> [cl EXCEPT ![k].settled = TRUE, ![k].pc = "done"]]
      ELSE [elect |-> [e EXCEPT !.peer = [kind |-> "clientPeer", of |-> k]],
            claims |-> [cl EXCEPT ![k].settled = TRUE, ![k].pc = "peer",
                                  ![k].clientPeer = "pending"]]

ElectCommit(res) ==
  /\ elect' = res.elect
  /\ claims' = res.claims
  /\ UNCHANGED <<serverVars, roomVars, hostVars, sioVars, callVars>>

\* connect(args) up to the await of getUserMedia.
ElectConnect(i) ==
  /\ i \in 1..MaxConnectCalls
  /\ claims[CallNames[i]].pc = "new"
  /\ \A j \in 1..(i - 1) : claims[CallNames[j]].pc # "new"
  /\ elect.peer = NoPeer
  /\ elect.status = "Disconnected"
  /\ ElectCommit([elect |-> [elect EXCEPT !.status = "Connecting",
                                          !.roomHostId = RoomPeerId],
                  claims |-> [claims EXCEPT ![CallNames[i]].pc = "mic"]])

\* getUserMedia resolves: tryBecomeHost creates the host peer and its timer.
ElectMicGranted(k) ==
  /\ claims[k].pc = "mic"
  /\ ElectCommit([elect |-> [elect EXCEPT !.localStream = "mic"],
                  claims |-> [claims EXCEPT ![k].pc = "claim",
                                            ![k].hostPeer = "pending",
                                            ![k].timer = "armed"]])

\* getUserMedia rejects.
ElectMicDenied(k) ==
  /\ claims[k].pc = "mic"
  /\ ElectCommit([elect |-> [elect EXCEPT !.status = "Disconnected"],
                  claims |-> [claims EXCEPT ![k].pc = "done"]])

\* hostPeer.on("open"): whenever the network grants the room's id to a host
\* peer that has not been destroyed.
ElectHostOpen(k) ==
  /\ claims[k].hostPeer = "pending"
  /\ ElectCommit(finalize([elect EXCEPT !.isHost = TRUE,
                                        !.peer = [kind |-> "hostPeer", of |-> k],
                                        !.selfPeerId = RoomPeerId,
                                        !.participants = @ \cup {RoomPeerId}],
                          [claims EXCEPT ![k].hostPeer = "open"], k, TRUE))

\* hostPeer.on("error")
ElectHostError(k, type) ==
  /\ claims[k].hostPeer \in {"pending", "open"}
  /\ type = "unavailable-id" => claims[k].hostPeer = "pending"
  /\ LET destroyed == [claims EXCEPT ![k].hostPeer = "destroyed"]
         after == IF type = "unavailable-id"
                    THEN [elect |-> elect, claims |-> destroyed]
                    ELSE electDisconnect(elect, destroyed)
     IN  ElectCommit(finalize(after.elect, after.claims, k, FALSE))

\* setTimeout(() => finalize(false), 3000)
ElectTimeout(k) ==
  /\ claims[k].timer = "armed"
  /\ ElectCommit(finalize(elect, [claims EXCEPT ![k].timer = "fired"], k, FALSE))

\* joinAsClient: the client's peer opens; connect() goes on to peer.connect
\* unless disconnect() has cleared roomHostId.
ElectPeerOpen(k) ==
  /\ claims[k].clientPeer = "pending"
  /\ claims[k].pc = "peer"
  /\ LET e1 == [elect EXCEPT !.selfPeerId = ClientPeerId]
     IN  IF e1.roomHostId = "null"
           THEN ElectCommit([elect |-> e1,
                             claims |-> [claims EXCEPT ![k].clientPeer = "open",
                                                       ![k].pc = "threw"]])
           ELSE ElectCommit([elect |-> [e1 EXCEPT !.hostControlConnection = k],
                             claims |-> [claims EXCEPT ![k].clientPeer = "open",
                                                       ![k].control = "connecting",
                                                       ![k].pc = "control"]])

\* joinAsClient: peer.on("error") rejects.
ElectPeerError(k) ==
  /\ claims[k].clientPeer = "pending"
  /\ claims[k].pc = "peer"
  /\ ElectCommit([elect |-> elect,
                  claims |-> [claims EXCEPT ![k].pc = "threw"]])

\* control.on("open"): join-request is sent and connect() sets Connected.
ElectControlOpen(k) ==
  /\ claims[k].control = "connecting"
  /\ claims[k].pc = "control"
  /\ ElectCommit([elect |-> [elect EXCEPT !.status = "Connected"],
                  claims |-> [claims EXCEPT ![k].control = "open", ![k].pc = "done"]])

\* control.on("error") rejects.
ElectControlError(k) ==
  /\ claims[k].control = "connecting"
  /\ claims[k].pc = "control"
  /\ ElectCommit([elect |-> elect,
                  claims |-> [claims EXCEPT ![k].pc = "threw"]])

\* control.on("close"): disconnect().
ElectControlClose(k) ==
  /\ claims[k].control \in {"connecting", "open"}
  /\ ElectCommit(electDisconnect(elect, [claims EXCEPT ![k].control = "closed"]))

\* disconnect() called by the page.
ElectDisconnect ==
  /\ elect # NewRoomClient
  /\ ElectCommit(electDisconnect(elect, claims))

NextElect ==
  \/ \E i \in 1..MaxConnectCalls : ElectConnect(i)
  \/ \E k \in Calls : ElectMicGranted(k)
  \/ \E k \in Calls : ElectMicDenied(k)
  \/ \E k \in Calls : ElectHostOpen(k)
  \/ \E k \in Calls, type \in ElectErrors : ElectHostError(k, type)
  \/ \E k \in Calls : ElectTimeout(k)
  \/ \E k \in Calls : ElectPeerOpen(k)
  \/ \E k \in Calls : ElectPeerError(k)
  \/ \E k \in Calls : ElectControlOpen(k)
  \/ \E k \in Calls : ElectControlError(k)
  \/ \E k \in Calls : ElectControlClose(k)
  \/ ElectDisconnect

SpecElect == InitElect /\ [][NextElect]_vars

\* --------------------------------------------- Socket.IO client (browser)
\* cleanupLocalStream()
cleanupLocalStream(cl) == [cl EXCEPT !.localStream = "null"]

\* setStatus(status)
setStatus(cl, st) == [cl EXCEPT !.status = st]

\* socket.emit(event) on one of the sockets.
SocketEmit(cs, k, ev) == [cs EXCEPT ![k].sent = @ \cup {ev}]

\* disconnect(): leave-room and socket.disconnect() go to this.socket, if any;
\* a connected socket runs its "disconnect" handler inside the call.
clientDisconnect(cl, cs) ==
  [client |-> setStatus(cleanupLocalStream([cl EXCEPT !.socket = "null"]), "Disconnected"),
   sockets |-> IF cl.socket = "null"
                 THEN cs
                 ELSE [SocketEmit(cs, cl.socket, "leave-room")
                         EXCEPT ![cl.socket].state = "closed"]]

InitClient == ServerIdle /\ RoomIdle /\ HostIdle /\ SioIdle /\ CallsIdle /\ ElectIdle

\* connect(args), up to the await of getUserMedia
ClientConnect(i) ==
  /\ connectCalls[CallNames[i]] = "idle"
  /\ \A j \in 1..(i - 1) : connectCalls[CallNames[j]] # "idle"
  /\ cancelled' = {}
  /\ IF client.socket # "null" \/ client.status # "Disconnected"
       THEN /\ connectCalls' = [connectCalls EXCEPT ![CallNames[i]] = "returned"]
            /\ UNCHANGED client
       ELSE /\ connectCalls' = [connectCalls EXCEPT ![CallNames[i]] = "awaiting"]
            /\ client' = setStatus(client, "Connecting")
  /\ UNCHANGED <<clientSockets, serverVars, roomVars, hostVars, callVars, electVars>>

\* getUserMedia resolves: connect() resumes, keeps the stream, creates the
\* socket and registers its handlers.
MicGranted(k) ==
  /\ connectCalls[k] = "awaiting"
  /\ connectCalls' = [connectCalls EXCEPT ![k] = "returned"]
  /\ client' = [client EXCEPT !.localStream = k, !.socket = k]
  /\ clientSockets' = [clientSockets EXCEPT ![k].state = "connecting"]
  /\ UNCHANGED <<cancelled, serverVars, roomVars, hostVars, callVars, electVars>>

\* getUserMedia rejects: connect() resumes in its catch block.
MicDenied(k) ==
  /\ connectCalls[k] = "awaiting"
  /\ connectCalls' = [connectCalls EXCEPT ![k] = "returned"]
  /\ client' = setStatus(client, "Disconnected")
  /\ UNCHANGED <<clientSockets, cancelled, serverVars, roomVars, hostVars, callVars, electVars>>

\* socket.on("connect")
SocketConnected(k) ==
  /\ clientSockets[k].state = "connecting"
  /\ clientSockets' = [SocketEmit(clientSockets, k, "join-room")
                         EXCEPT ![k].state = "connected"]
  /\ UNCHANGED <<client, connectCalls, cancelled, serverVars, roomVars, hostVars, callVars, electVars>>

\* socket.on("joined-room") with no other participant, socket.on("participant-joined")
ServerWelcome(k) ==
  /\ clientSockets[k].state = "connected"
  /\ client' = setStatus(client, "Connected")
  /\ UNCHANGED <<connectCalls, clientSockets, cancelled, serverVars, roomVars, hostVars, callVars, electVars>>

\* socket.on("connect_error"): disconnect() is called; the socket that failed
\* keeps trying unless it is the one disconnect() closes.
ConnectError(k) ==
  /\ clientSockets[k].state = "connecting"
  /\ client' = clientDisconnect(client, clientSockets).client
  /\ clientSockets' = clientDisconnect(client, clientSockets).sockets
  /\ cancelled' = cancelled \cup {c \in Calls : connectCalls[c] = "awaiting"}
  /\ UNCHANGED <<connectCalls, serverVars, roomVars, hostVars, callVars, electVars>>

\* socket.on("disconnect"): the server or the network closed the socket;
\* the transport tries again (again) or gives up.
SocketDropped(k, again) ==
  /\ clientSockets[k].state = "connected"
  /\ clientSockets' = [clientSockets EXCEPT
                         ![k].state = IF again THEN "connecting" ELSE "closed"]
  /\ client' = setStatus(cleanupLocalStream(client), "Disconnected")
  /\ UNCHANGED <<connectCalls, cancelled, serverVars, roomVars, hostVars, callVars, electVars>>

\* disconnect()
ClientDisconnect ==
  /\ client' = clientDisconnect(client, clientSockets).client
  /\ clientSockets' = clientDisconnect(client, clientSockets).sockets
  /\ cancelled' = cancelled \cup {c \in Calls : connectCalls[c] = "awaiting"}
  /\ UNCHANGED <<connectCalls, serverVars, roomVars, hostVars, callVars, electVars>>

\* setMuted(muted)
ClientSetMuted ==
  /\ client.localStream # "null"
  /\ client.socket # "null"
  /\ clientSockets' = SocketEmit(clientSockets, client.socket, "set-muted")
  /\ UNCHANGED <<client, connectCalls, cancelled, serverVars, roomVars, hostVars, callVars, electVars>>

NextClient ==
  \/ \E i \in 1..MaxConnectCalls : ClientConnect(i)
  \/ \E k \in Calls : MicGranted(k)
  \/ \E k \in Calls : MicDenied(k)
  \/ \E k \in Calls : SocketConnected(k)
  \/ \E k \in Calls : ServerWelcome(k)
  \/ \E k \in Calls : ConnectError(k)
  \/ \E k \in Calls, again \in BOOLEAN : SocketDropped(k, again)
  \/ ClientDisconnect
  \/ ClientSetMuted

SpecClient == InitClient /\ [][NextClient]_vars

\* ------------------------------------------------------------ properties
Members == UNION {MapKeys(rooms[r]) : r \in DOMAIN rooms}

\* Sockets whose most recent successful join no leave-room or disconnect followed.
Active == {c \in DOMAIN removals : ~removals[c]}

\* The list the rooms map holds for a room, empty when it has no entry.
RoomList(rms, r) == IF r \in DOMAIN rms THEN rms[r] ELSE <<>>

Ids(participants) == {participants[i].socketId : i \in 1..Len(participants)}

RelayKinds == {"offer", "answer", "ice-candidate"}

\* A userId that is empty or only whitespace.
BlankUserId(payload) ==
  /\ payload.shape = "string"
  /\ \A i \in 1..Len(payload.userId) : payload.userId[i] = " "

\* The last handler served a join-room that passed both checks.
JoinedNow(c) ==
  /\ lastEvent.name = "join-room"
  /\ lastEvent.socket = c
  /\ lastEvent.payload.shape = "string"
  /\ ~BlankUserId(lastEvent.payload)
  /\ canTalk(Trim(lastEvent.payload.userId), GLOBAL_ROOM_ID)

\* C1: after every step of any sequence of join-room, leave-room and
\* disconnect events, the room's member set is exactly the set of connections
\* whose most recent successful join was not followed by a leave-room or a
\* disconnect of that connection.
C1_MembersAreActive == Members = Active

C1_Witness ==
  /\ lastEvent.name = "disconnect"
  /\ lastEvent.socket \in DOMAIN removals
  /\ removals[lastEvent.socket]
  /\ emitted # <<>>
  /\ Members # {}

\* C2: a connection id has a session if and only if it is in a room's member
\* map, and it is in the member map of the room its session names.
C2_SessionsMatchRooms ==
  /\ DOMAIN sessions = Members
  /\ \A c \in DOMAIN sessions :
       /\ sessions[c].roomId \in DOMAIN rooms
       /\ MapHas(rooms[sessions[c].roomId], c)

C2_Witness ==
  /\ Cardinality(DOMAIN sessions) = 2
  /\ lastEvent.name = "set-muted"

\* C3: every participant-update carries exactly the member set of the moment
\* it is emitted.  The update that ends a handler lists the room as the
\* handler leaves it; the update a rejoin emits first lists the room without
\* the rejoining connection.
C3_UpdateIsCurrent ==
  [][\A i \in 1..Len(emitted') :
       emitted'[i].event = "participant-update" =>
         IF i = Len(emitted')
           THEN /\ emitted'[i].data.participants =
                     RoomList(rooms', emitted'[i].data.roomId)
                /\ Ids(emitted'[i].data.participants) = Active'
           ELSE /\ emitted'[i].data.participants =
                     MapDelete(RoomList(rooms, emitted'[i].data.roomId), lastEvent'.socket)
                /\ Ids(emitted'[i].data.participants) = Active \ {lastEvent'.socket}]_vars

C3_Witness ==
  /\ lastEvent.name = "disconnect"
  /\ Len(emitted) = 2
  /\ emitted[2].event = "participant-update"
  /\ Len(emitted[2].data.participants) = 1

\* C4: a relayed offer, answer or ice-candidate is delivered to at most one
\* connection, the one whose id equals `to`, whatever `to` is.
C4_RelayToNamedTargetOnly ==
  (lastEvent.name \in RelayKinds /\ emitted # <<>>) =>
    \A i \in 1..Len(emitted) : emitted[i].to \subseteq {lastEvent.payload.to}

\* C5: when leave-room or disconnect runs again for a connection with no join
\* in between, the run changes neither sessions nor rooms and emits nothing;
\* the first run for a member emits one peer-left naming it and one
\* participant-update.
C5_RemovalIdempotent ==
  [][(lastEvent'.name \in {"leave-room", "disconnect"}) =>
       LET c == lastEvent'.socket
       IN  IF c \in DOMAIN removals /\ removals[c]
             THEN rooms' = rooms /\ sessions' = sessions /\ emitted' = <<>>
             ELSE c \in DOMAIN sessions =>
                    /\ Len(emitted') = 2
                    /\ emitted'[1].event = "peer-left"
                    /\ emitted'[1].data.socketId = c
                    /\ emitted'[2].event = "participant-update"]_vars

C5_Witness ==
  /\ lastEvent.name = "disconnect"
  /\ lastEvent.socket \in DOMAIN removals
  /\ removals[lastEvent.socket]
  /\ emitted = <<>>
  /\ Members # {}

\* C6: a join-room whose userId is empty or only whitespace is answered with
\* one voice-error INVALID_JOIN to the requester alone; sessions and rooms
\* are unchanged and nothing else is emitted.
C6_BlankJoinRejected ==
  [][(lastEvent'.name = "join-room" /\ BlankUserId(lastEvent'.payload)) =>
       /\ emitted' = <<Emit("voice-error", {lastEvent'.socket}, [code |-> "INVALID_JOIN"])>>
       /\ rooms' = rooms
       /\ sessions' = sessions]_vars

C6_Witness ==
  /\ lastEvent.name = "join-room"
  /\ lastEvent.payload.userId = <<" ">>
  /\ lastEvent.payload.shape = "string"
  /\ lastEvent.socket \in DOMAIN sessions
  /\ sessions[lastEvent.socket].muted
  /\ emitted[1].event = "voice-error"

\* C7: when the admission predicate refuses a join-room, the requester alone
\* receives a voice-error FORBIDDEN, sessions and rooms are unchanged and no
\* other message is sent.
Refused(payload) ==
  /\ payload.shape = "string"
  /\ ~BlankUserId(payload)
  /\ ~canTalk(Trim(payload.userId), GLOBAL_ROOM_ID)

C7_ForbiddenJoinRejected ==
  [][(lastEvent'.name = "join-room" /\ Refused(lastEvent'.payload)) =>
       /\ emitted' = <<Emit("voice-error", {lastEvent'.socket}, [code |-> "FORBIDDEN"])>>
       /\ rooms' = rooms
       /\ sessions' = sessions]_vars

C7_Witness ==
  /\ lastEvent.name = "join-room"
  /\ Len(emitted) = 1
  /\ emitted[1].event = "voice-error"
  /\ emitted[1].data.code = "FORBIDDEN"
  /\ lastEvent.socket \in DOMAIN sessions
  /\ Cardinality(Members) = 2

\* C8: on a successful join-room by c into a room whose members are M, one
\* joined-room goes to c only and lists exactly M without c.
C8_AckListsOthers ==
  [][\A c \in Sockets : JoinedNow(c)' =>
       \E i \in 1..Len(emitted') :
         /\ emitted'[i].event = "joined-room"
         /\ emitted'[i].to = {c}
         /\ emitted'[i].data.participants =
              MapDelete(RoomList(rooms, GLOBAL_ROOM_ID), c)
         /\ \A j \in 1..Len(emitted') :
              emitted'[j].event = "joined-room" => j = i]_vars

C8_Witness ==
  \E c \in Sockets :
    /\ JoinedNow(c)
    /\ Len(emitted) = 5
    /\ emitted[3].event = "joined-room"
    /\ Len(emitted[3].data.participants) = 1

\* C9: a successful join-room by c emits, in this order, joined-room to c,
\* participant-joined naming c to every other member and not to c, and a
\* participant-update listing every member, c included, to every member.
C9_JoinOrder ==
  \A c \in Sockets : JoinedNow(c) =>
    LET n == Len(emitted)
    IN  /\ n >= 3
        /\ emitted[n - 2].event = "joined-room"
        /\ emitted[n - 2].to = {c}
        /\ emitted[n - 1].event = "participant-joined"
        /\ emitted[n - 1].data.socketId = c
        /\ emitted[n - 1].to = Members \ {c}
        /\ emitted[n].event = "participant-update"
        /\ emitted[n].to = Members
        /\ c \in Members
        /\ Ids(emitted[n].data.participants) = Members
        /\ \A i \in 1..(n - 3) : emitted[i].event \notin {"joined-room", "participant-joined"}

C9_Witness ==
  \E c \in Sockets :
    /\ JoinedNow(c)
    /\ Cardinality(Members) = 2
    /\ Len(emitted) = 3

\* C10: when a member c leaves or disconnects, every remaining member
\* receives peer-left naming c and then a participant-update without c, and
\* afterwards c is in neither rooms nor sessions.
C10_DepartureNotified ==
  [][(lastEvent'.name \in {"leave-room", "disconnect"}
        /\ lastEvent'.socket \in DOMAIN sessions) =>
       LET c == lastEvent'.socket
       IN  /\ c \notin Members'
           /\ c \notin DOMAIN sessions'
           /\ Len(emitted') = 2
           /\ emitted'[1].event = "peer-left"
           /\ emitted'[1].data.socketId = c
           /\ emitted'[2].event = "participant-update"
           /\ c \notin Ids(emitted'[2].data.participants)
           /\ \A m \in Members \ {c} : m \in emitted'[1].to /\ m \in emitted'[2].to]_vars

C10_Witness ==
  /\ lastEvent.name = "leave-room"
  /\ Len(emitted) = 2
  /\ emitted[1].event = "peer-left"
  /\ emitted[1].to # {}
  /\ Members # {}

\* C11: the peer-left notice naming a departing connection c is delivered
\* only to the members that remain; c itself never receives it.
C11_PeerLeftNotToLeaver ==
  \A i \in 1..Len(emitted) :
    emitted[i].event = "peer-left" => emitted[i].data.socketId \notin emitted[i].to

\* C12: a set-muted by a joined connection c sets c's muted flag to the
\* requested value (false when the payload names none) and changes nothing
\* else; one participant-update with the new list goes to every member.
Requested(payload) == payload.shape = "object" /\ payload.muted = "true"

C12_SetMutedFrame ==
  [][(lastEvent'.name = "set-muted" /\ lastEvent'.socket \in DOMAIN sessions) =>
       LET c == lastEvent'.socket
           req == Requested(lastEvent'.payload)
           old == RoomList(rooms, GLOBAL_ROOM_ID)
           new == RoomList(rooms', GLOBAL_ROOM_ID)
       IN  /\ DOMAIN rooms' = DOMAIN rooms
           /\ DOMAIN sessions' = DOMAIN sessions
           /\ sessions'[c] = [sessions[c] EXCEPT !.muted = req]
           /\ \A o \in (DOMAIN sessions) \ {c} : sessions'[o] = sessions[o]
           /\ Len(new) = Len(old)
           /\ \A i \in 1..Len(old) :
                new[i] = IF old[i].socketId = c
                           THEN [old[i] EXCEPT !.muted = req]
                           ELSE old[i]
           /\ emitted' = <<Emit("participant-update", Members,
                                [roomId |-> GLOBAL_ROOM_ID, participants |-> new])>>]_vars

C12_Witness ==
  /\ lastEvent.name = "set-muted"
  /\ Cardinality(Members) = 2
  /\ lastEvent.socket \in Members
  /\ sessions[lastEvent.socket].muted
  /\ \E o \in Members : ~sessions[o].muted
  /\ Len(emitted) = 1

\* C13 as claimed: once a connection has sent leave-room or has disconnected,
\* no later event makes it a room member again.
C13_ExitIsTerminal ==
  [][\A c \in Sockets : (c \in DOMAIN removals /\ removals[c]) => c \notin Members']_vars

\* C13 amended: a disconnected connection is never a member and has no
\* session, and it stays disconnected.
C13_DisconnectedIsTerminal ==
  [][\A c \in Sockets :
       /\ status[c] = "closed" => status'[c] = "closed"
       /\ status'[c] = "closed" => (c \notin Members' /\ c \notin DOMAIN sessions')]_vars

C13_Witness ==
  \E c \in Sockets :
    /\ status[c] = "closed"
    /\ c \in DOMAIN removals
    /\ lastEvent.name = "join-room"
    /\ lastEvent.socket # c
    /\ Members # {}

\* C14: no inbound event makes a handler raise an error, whatever its payload.
C14_NoHandlerThrows == ~crashed

\* C15: after any sequence of events, the last participant-update each
\* current member received lists the room as it is now.
C15_MembersConverge ==
  /\ DOMAIN lastUpdate = Members
  /\ \A c \in Members : lastUpdate[c] = RoomList(rooms, GLOBAL_ROOM_ID)

C15_Witness ==
  /\ lastEvent.name = "disconnect"
  /\ Members # {}
  /\ \E c \in Members : lastUpdate[c][1].muted
  /\ Len(emitted) = 2

\* C16: leave-room, disconnect and set-muted from a connection without a
\* session change neither sessions nor rooms and emit nothing.
C16_NoSessionNoEffect ==
  [][(lastEvent'.name \in {"leave-room", "disconnect", "set-muted"}
        /\ lastEvent'.socket \notin DOMAIN sessions) =>
       /\ rooms' = rooms
       /\ sessions' = sessions
       /\ emitted' = <<>>]_vars

C16_Witness ==
  /\ lastEvent.name = "set-muted"
  /\ lastEvent.socket \notin DOMAIN sessions
  /\ lastEvent.payload.muted = "true"
  /\ Members # {}

\* C17: an offer, answer or ice-candidate from a connection without a session
\* delivers nothing and changes neither sessions nor rooms.
C17_NoSessionNoRelay ==
  [][(lastEvent'.name \in RelayKinds /\ lastEvent'.socket \notin DOMAIN sessions) =>
       /\ emitted' = <<>>
       /\ rooms' = rooms
       /\ sessions' = sessions
       /\ crashed' = crashed]_vars

C17_Witness ==
  /\ lastEvent.name = "offer"
  /\ lastEvent.socket \notin DOMAIN sessions
  /\ lastEvent.payload.shape = "object"
  /\ lastEvent.payload.to \in Members
  /\ emitted = <<>>

\* C18: the rooms map never holds a room without members.
C18_NoEmptyRoom == \A r \in DOMAIN rooms : Len(rooms[r]) >= 1

C18_Witness ==
  /\ lastEvent.name = "leave-room"
  /\ Len(emitted) = 2
  /\ DOMAIN rooms = {}

\* C19: from any state and for any connected socket c, leave-room and
\* disconnect leave the same sessions and rooms and send every other
\* connection the same messages in the same order.
AfterLeave(c) == removeSocketFromRoom(Current, c)
AfterDisconnect(c) == removeSocketFromRoom([Current EXCEPT !.sids = LeaveAll(sids, c)], c)

\* The messages of `out` delivered to socket o, in order.
DeliveredTo(out, o) ==
  LET got == SelectSeq(out, LAMBDA m : o \in m.to)
  IN  [i \in 1..Len(got) |-> [event |-> got[i].event, data |-> got[i].data]]

C19_LeaveEqualsDisconnect ==
  \A c \in Sockets : status[c] = "open" =>
    /\ AfterLeave(c).rooms = AfterDisconnect(c).rooms
    /\ AfterLeave(c).sessions = AfterDisconnect(c).sessions
    /\ \A o \in Sockets \ {c} :
         DeliveredTo(AfterLeave(c).out, o) = DeliveredTo(AfterDisconnect(c).out, o)

C19_Witness ==
  \E c \in Members, o \in Members :
    /\ o # c
    /\ status[c] = "open"
    /\ ~crashed
    /\ Len(DeliveredTo(AfterDisconnect(c).out, o)) = 2
    /\ c \notin DOMAIN AfterLeave(c).sessions

\* C20: every admitted join-room lands in global-room whatever roomId its
\* payload carries: rooms has no other key and every session names global-room.
C20_OneGlobalRoom ==
  /\ DOMAIN rooms \subseteq {GLOBAL_ROOM_ID}
  /\ \A c \in DOMAIN sessions : sessions[c].roomId = GLOBAL_ROOM_ID

C20_Witness ==
  \E c \in Sockets :
    /\ JoinedNow(c)
    /\ lastEvent.payload.roomId = "other-room"
    /\ sessions[c].roomId = GLOBAL_ROOM_ID

\* C22: a valid join-room by a connection c that is already a member removes
\* c first: every other member receives peer-left naming c, a
\* participant-update without c, participant-joined naming c and a
\* participant-update with c, in that order; afterwards c is in the room once
\* and has one session.
C22_RejoinRemovesFirst ==
  [][\A c \in Sockets : (JoinedNow(c)' /\ c \in DOMAIN sessions) =>
       LET old == RoomList(rooms, GLOBAL_ROOM_ID)
           new == RoomList(rooms', GLOBAL_ROOM_ID)
           expected ==
             << [event |-> "peer-left", data |-> [socketId |-> c]],
                [event |-> "participant-update",
                 data |-> [roomId |-> GLOBAL_ROOM_ID, participants |-> MapDelete(old, c)]],
                [event |-> "participant-joined",
                 data |-> [socketId |-> c, userId |-> sessions'[c].userId]],
                [event |-> "participant-update",
                 data |-> [roomId |-> GLOBAL_ROOM_ID, participants |-> new]] >>
       IN  /\ \A o \in Members \ {c} : DeliveredTo(emitted', o) = expected
           /\ Ids(new) = Members
           /\ Cardinality({i \in 1..Len(new) : new[i].socketId = c}) = 1
           /\ c \in DOMAIN sessions']_vars

C22_Witness ==
  \E c \in Sockets :
    /\ JoinedNow(c)
    /\ Len(emitted) = 5
    /\ emitted[1].event = "peer-left"
    /\ emitted[4].to # {}

\* C23: every relayed offer, answer and ice-candidate carries `from` equal
\* to the sender's connection id, `userId` equal to the userId of the
\* sender's session, and the sdp or candidate the sender supplied.
C23_RelayTagged ==
  (lastEvent.name \in RelayKinds /\ emitted # <<>>) =>
    /\ Len(emitted) = 1
    /\ emitted[1].event = lastEvent.name
    /\ lastEvent.socket \in DOMAIN sessions
    /\ emitted[1].data = [from |-> lastEvent.socket,
                          userId |-> sessions[lastEvent.socket].userId,
                          data |-> lastEvent.payload.data]

C23_Witness ==
  /\ lastEvent.name = "answer"
  /\ Len(emitted) = 1
  /\ emitted[1].to # {}
  /\ lastEvent.socket \notin emitted[1].to
  /\ emitted[1].data.data = "x"
  /\ \E o \in DOMAIN sessions : sessions[o].userId # emitted[1].data.userId

\* C24: an offer, answer or ice-candidate leaves sessions and rooms unchanged
\* and emits no participant-update, participant-joined or peer-left; only
\* join-room, leave-room, set-muted and disconnect change sessions or rooms.
C24_RelayReadOnly ==
  [][/\ lastEvent'.name \in RelayKinds =>
          /\ rooms' = rooms
          /\ sessions' = sessions
          /\ \A i \in 1..Len(emitted') :
               emitted'[i].event \notin
                 {"participant-update", "participant-joined", "peer-left"}
     /\ (rooms' # rooms \/ sessions' # sessions) =>
          lastEvent'.name \in {"join-room", "leave-room", "set-muted", "disconnect"}]_vars

C24_Witness ==
  /\ lastEvent.name = "ice-candidate"
  /\ lastEvent.payload.to = GLOBAL_ROOM_ID
  /\ Len(emitted) = 1
  /\ Cardinality(emitted[1].to) = 2

\* C25: a relayed message from a joined sender reaches the connection named
\* in `to` whether or not that connection has a session, the sender itself
\* included.
C25_RelayTargetUnchecked ==
  (/\ lastEvent.name \in RelayKinds
   /\ lastEvent.socket \in DOMAIN sessions
   /\ lastEvent.payload.shape = "object"
   /\ lastEvent.payload.to \in Sockets
   /\ status[lastEvent.payload.to] = "open") =>
    /\ Len(emitted) = 1
    /\ emitted[1].to = {lastEvent.payload.to}

C25_Witness ==
  /\ lastEvent.name = "offer"
  /\ lastEvent.payload.shape = "object"
  /\ lastEvent.payload.to \in Sockets
  /\ lastEvent.payload.to \notin DOMAIN sessions
  /\ lastEvent.payload.to \in DOMAIN removals
  /\ Len(emitted) = 1
  /\ emitted[1].to = {lastEvent.payload.to}

\* C27: each member's session and participant record agree on userId and
\* muted, and the record's socketId is the key it is stored under.
C27_SessionMatchesParticipant ==
  \A c \in DOMAIN sessions :
    /\ sessions[c].roomId \in DOMAIN rooms
    /\ LET room == rooms[sessions[c].roomId]
           at == {i \in 1..Len(room) : room[i].socketId = c}
       IN  /\ Cardinality(at) = 1
           /\ \A i \in at : /\ room[i].userId = sessions[c].userId
                             /\ room[i].muted = sessions[c].muted

C27_Witness ==
  /\ lastEvent.name = "set-muted"
  /\ Cardinality(DOMAIN sessions) = 2
  /\ \E c \in DOMAIN sessions : sessions[c].muted
  /\ \E c \in DOMAIN sessions : ~sessions[c].muted
  /\ \E c, o \in DOMAIN sessions : sessions[c].userId # sessions[o].userId

\* C28: the sockets subscribed to the room's broadcast group are the room's
\* members whenever a participant-update is emitted: each participant-update
\* is delivered to exactly the connections it lists.
C28_UpdateReachesListed ==
  /\ \A i \in 1..Len(emitted) :
       emitted[i].event = "participant-update" =>
         emitted[i].to = Ids(emitted[i].data.participants)
  /\ IoTo(sids, GLOBAL_ROOM_ID) = Members

C28_Witness ==
  /\ lastEvent.name = "join-room"
  /\ Len(emitted) = 5
  /\ emitted[2].event = "participant-update"
  /\ Cardinality(emitted[2].to) = 1
  /\ Cardinality(emitted[5].to) = 2

\* C29: every successful join-room leaves the joining connection unmuted in
\* its session and in its participant record, also when it was a muted member
\* before; the participant-update that follows lists it as unmuted.
C29_JoinUnmuted ==
  [][\A c \in Sockets : JoinedNow(c)' =>
       LET new == RoomList(rooms', GLOBAL_ROOM_ID)
           upd == emitted'[Len(emitted')]
       IN  /\ c \in DOMAIN sessions'
           /\ ~sessions'[c].muted
           /\ \A i \in 1..Len(new) : new[i].socketId = c => ~new[i].muted
           /\ upd.event = "participant-update"
           /\ \E i \in 1..Len(upd.data.participants) :
                upd.data.participants[i].socketId = c
           /\ \A i \in 1..Len(upd.data.participants) :
                upd.data.participants[i].socketId = c => ~upd.data.participants[i].muted
           /\ (c \in DOMAIN sessions /\ sessions[c].muted) => Len(emitted') = 5]_vars

C29_Witness ==
  \E c \in Sockets :
    /\ JoinedNow(c)
    /\ Len(emitted) = 5
    /\ ~sessions[c].muted
    /\ \E o \in DOMAIN sessions : sessions[o].muted

\* The first and the last character of a name that is not a space.
FirstInk(s) == CHOOSE i \in 1..Len(s) : s[i] # " " /\ \A j \in 1..(i - 1) : s[j] = " "
LastInk(s) == CHOOSE i \in 1..Len(s) : s[i] # " " /\ \A j \in (i + 1)..Len(s) : s[j] = " "

\* C21 as claimed: the room's host id is "room-" followed by the lower-cased
\* name with every character outside [a-z0-9_-] stripped out, cut to 36
\* characters, or by the default name when nothing is left.
C21_StripsDisallowed ==
  roomHostId # <<>> =>
    LET lower == [i \in 1..Len(args.roomId) |-> LowerChar(args.roomId[i])]
        kept == SelectSeq(lower, LAMBDA ch : ch \in AllowedChars)
        cut == SubSeq(kept, 1, IF Len(kept) < 36 THEN Len(kept) ELSE 36)
    IN  roomHostId = RoomPrefix \o (IF cut = <<>> THEN DefaultRoom ELSE cut)

\* C21 amended: the host id is "room-" followed by the name without its
\* leading and trailing spaces, lower-cased, each character outside
\* [a-z0-9_-] replaced by "-", cut to 36 characters; the default name is used
\* only for a name that is empty or all spaces.
C21_ReplacesDisallowed ==
  roomHostId # <<>> =>
    LET name == args.roomId
        tail == SubSeq(roomHostId, Len(RoomPrefix) + 1, Len(roomHostId))
    IN  /\ SubSeq(roomHostId, 1, Len(RoomPrefix)) = RoomPrefix
        /\ IF \A i \in 1..Len(name) : name[i] = " "
             THEN tail = DefaultRoom
             ELSE LET n == LastInk(name) - FirstInk(name) + 1
                  IN  /\ Len(tail) = IF n < 36 THEN n ELSE 36
                      /\ \A i \in 1..Len(tail) :
                           LET ch == LowerChar(name[FirstInk(name) + i - 1])
                           IN  tail[i] = IF ch \in AllowedChars THEN ch ELSE "-"

C21_Witness ==
  /\ roomHostId # <<>>
  /\ Len(args.roomId) > 36
  /\ args.roomId[1] = "!"
  /\ args.roomId[Len(args.roomId)] = "B"
  /\ Len(roomHostId) = Len(RoomPrefix) + 36

\* The connection a participant of the host registered through, "none" for the
\* host itself and for a participant whose connection entry is gone.
RegisteredThrough(h, pid) ==
  IF pid \in HcKeys(h.hostConnections)
    THEN h.hostConnections[CHOOSE i \in 1..Len(h.hostConnections) :
                             h.hostConnections[i].peerId = pid].conn
    ELSE "none"

MutedOf(h, pid) ==
  h.participants[CHOOSE i \in 1..Len(h.participants) :
                   h.participants[i].socketId = pid].muted

\* C26: on the room host, a mute-update received on a data connection changes
\* the muted flag only of the participant that registered through that
\* connection, never the host's or another connection's participant.
C26_MuteOwnOnly ==
  [][(hostEvent'.name = "data" /\ hostEvent'.msg.type = "mute-update") =>
       \A pid \in MapKeys(host.participants) \cap MapKeys(host'.participants) :
         MutedOf(host', pid) # MutedOf(host, pid) =>
           RegisteredThrough(host, pid) = hostEvent'.conn]_vars

\* C30: in the Socket.IO client, once disconnect() has run while a connect()
\* call was waiting for the microphone, and until connect() is called again,
\* that call's resumption leaves the client Disconnected with no local stream
\* and no socket, and no join-room is emitted for it.
C30_DisconnectIsFinal ==
  (\E k \in cancelled : connectCalls[k] = "returned") =>
    /\ client.status = "Disconnected"
    /\ client.localStream = "null"
    /\ client.socket = "null"
    /\ \A k \in cancelled : "join-room" \notin clientSockets[k].sent

\* C31: a client whose host claim succeeded stays host and Connected, its host
\* peer open, until disconnect() runs (called by the user or by the signaling
\* network dropping the peer); the host-claim timer does not end it.
C31_HostStaysHost ==
  [][(host.isHost /\ host.status = "Connected" /\ hostEvent'.name # "disconnect") =>
       /\ host'.isHost
       /\ host'.status = "Connected"
       /\ hostClaim'.hostPeer = "open"]_vars

\* C33: on the room host the participants are the peers of hostConnections
\* and the host itself.
C33_ParticipantsAreConnections ==
  host.isHost =>
    MapKeys(host.participants) = HcKeys(host.hostConnections) \cup {host.selfPeerId}

\* C34: of two distinct listed clients that have processed the same
\* participant list, only the one whose peer id orders after the other's
\* starts the call between them, and it does so unless it held a call with
\* the other already; no client calls itself, and no client starts a call to
\* a peer it has a call with.
C34_OneCaller ==
  /\ \A p, q \in round.done \cap MapKeys(round.list) :
       (p # q /\ Rank(p) > Rank(q)) =>
         /\ <<q, p>> \notin round.started
         /\ <<p, q>> \in round.started \/ <<p, q>> \in round.held
  /\ \A pq \in round.started : pq[1] # pq[2]
  /\ round.doubled = {}

C34_Witness ==
  /\ {"a1", "z9"} \subseteq round.done \cap MapKeys(round.list)
  /\ round.held = {}
  /\ <<"z9", "a1">> \in round.started
  /\ "a1" \in mesh["z9"].calls
  /\ "z9" \in mesh["a1"].calls

\* C32: the per-room client is never host and room client at once: while
\* isHost is true, hostControlConnection is null and this.peer is the host
\* peer, also when the host peer opens after the claim's timer has fired.
C32_HostXorClient ==
  elect.isHost =>
    /\ elect.hostControlConnection = "null"
    /\ elect.peer.kind = "hostPeer"

====
